---- MODULE Spec2Model ----
(***************************************************************************)
(* Model of MPI_example_code_in_C.c: the SPMD program that approximates pi *)
(* by midpoint quadrature of 4/(1+x*x) on [0,1].  Every rank runs main();  *)
(* rank 0 reads the number of intervals n, MPI_Bcast distributes it,       *)
(* each rank sums the samples i = myid+1, myid+1+numprocs, ... <= n,       *)
(* MPI_Reduce(MPI_SUM) delivers the total to rank 0, which prints it.      *)
(*                                                                         *)
(* The two collectives are modelled with the completion semantics of the   *)
(* MPI standard: a call returns as soon as the caller's own part is done.  *)
(* The root of MPI_Bcast may return before any other rank has entered the  *)
(* call; a non-root rank of MPI_Reduce may return as soon as its           *)
(* contribution is handed over.  A receiver waits for its data.            *)
(*                                                                         *)
(* double values are modelled as exact reduced fractions <<num, den>>.     *)
(***************************************************************************)
EXTENDS Integers, Sequences, FiniteSets, TLC

\* ---------------------------------------------------------------- bounds
\* largest number of processes the launcher starts
MaxProcs == 3
\* largest number of intervals typed at the prompt
MaxN == 3
\* most negative number typed at the prompt is -MaxNeg
MaxNeg == 1
\* number of passes of the while loop that are explored
MaxRounds == 2
\* largest number of processes in the runs checked for progress
MaxFairProcs == 2
\* INT_MAX of the 32-bit int of line 7
IntMax == 2147483647
\* the body of the loop is followed for at most this many runs in a pass (a
\* loop whose index has wrapped around may never end)
MaxVisits == 2 * MaxN

\* ------------------------------------------------- exact "double" values
\* (the set constructors make each argument a value before it is passed on,
\* so that it is computed once)
RECURSIVE GCD(_, _)
GCD(a, b) ==
  IF b = 0 THEN a
  ELSE CHOOSE g \in { GCD(bb, m) : bb \in {b}, m \in {a % b} } : TRUE

Abs(a) == IF a < 0 THEN -a ELSE a

\* p/q with the common factor g taken out and the sign s of q moved up
Reduced(p, q, g, s) == << (s * p) \div g, (s * q) \div g >>

\* reduced fraction with positive denominator
Norm(p, q) ==
  CHOOSE f \in { Reduced(pp, qq, GCD(Abs(pp), Abs(qq)), IF qq < 0 THEN -1 ELSE 1) :
                   pp \in {p}, qq \in {q} } : TRUE

\* (double) i
ToDouble(k) == << k, 1 >>

\* a/b + s*c/d over the least common denominator b*d/g, g the common factor
\* of b and d
Over(a, b, s, g) ==
  Norm(a[1] * (b[2] \div g) + s * b[1] * (a[2] \div g), a[2] * (b[2] \div g))

RAdd(a, b) ==
  CHOOSE f \in { Over(aa, bb, 1, GCD(aa[2], bb[2])) : aa \in {a}, bb \in {b} } : TRUE
RSub(a, b) ==
  CHOOSE f \in { Over(aa, bb, -1, GCD(aa[2], bb[2])) : aa \in {a}, bb \in {b} } : TRUE
RMul(a, b) == Norm(a[1] * b[1], a[2] * b[2])
RDiv(a, b) == Norm(a[1] * b[2], a[2] * b[1])

Zero == ToDouble(0)
One == ToDouble(1)
Four == ToDouble(4)
Half == << 1, 2 >>

\* ------------------------------------------------------------ the state
VARIABLES
  numprocs,   \* MPI_Comm_size result, the same on every rank
  myid,       \* myid[r]: MPI_Comm_rank result of rank r
  pc,         \* pc[r]: the statement rank r executes next
  n,          \* n[r]: number of intervals held by rank r
  i,          \* i[r]: loop index
  h, sum, x,  \* the doubles of the integration
  mypi, pi,   \* partial value, and the reduction's result
  t0, t1,     \* the two MPI_Wtime readings
  clock,      \* clock[r]: the process-local clock MPI_Wtime reads
  drift,      \* drift[r]: the ticks rank r's clock moves on between two readings
  intMax,     \* the largest value the int of line 7 holds
  bch,        \* bch[r]: broadcast data <<pass, value>> in flight from rank 0 to r
  rch,        \* rch[r]: reduce data <<pass, value>> in flight from rank r to rank 0
  stdinBad,   \* the coordinator's stdin is stuck at end of file or at a non-number
  converted,  \* the coordinator's last scanf converted a number and stored it
  out,        \* what has been written to stdout or read from stdin, in order
  round,      \* round[r]: passes of the while loop rank r has begun
  visited,    \* visited[r]: the indices rank r's loop body ran on this pass, in order
  calcRound,  \* calcRound[r]: the pass in which mypi[r] was last assigned
  sent,       \* <<pass, value>>: what rank 0 held in n on entering its last broadcast
  repElapsed, \* the elapsed time last printed
  repPi,      \* the value of pi last printed
  finalized,  \* finalized[r]: number of MPI_Finalize calls
  status      \* status[r]: exit status, -1 while running

vars == << numprocs, myid, pc, n, i, h, sum, x, mypi, pi, t0, t1, clock, drift,
           intMax, bch, rch, stdinBad, converted, out, round, visited, calcRound, sent,
           repElapsed, repPi, finalized, status >>

Ranks == 0 .. (numprocs - 1)

\* what an int left uninitialised by line 7 may hold: any value of the range
\* explored
UninitInt == (0 - MaxNeg) .. MaxN
\* what scanf("%d") can store
InputVals == (0 - MaxNeg) .. MaxN

\* --------------------------------------------------------------- startup
\* lines 7-12: the state once MPI_Init, MPI_Comm_size and MPI_Comm_rank
\* have returned on every rank
Started ==
  /\ numprocs \in 1 .. MaxProcs
  /\ myid = [r \in Ranks |-> r]
  /\ pc = [r \in Ranks |-> "while"]
  /\ n \in [Ranks -> UninitInt]
  /\ i = [r \in Ranks |-> 0]
  /\ h = [r \in Ranks |-> Zero]
  /\ sum = [r \in Ranks |-> Zero]
  /\ x = [r \in Ranks |-> Zero]
  /\ mypi = [r \in Ranks |-> Zero]
  /\ pi = [r \in Ranks |-> Zero]
  /\ t0 = [r \in Ranks |-> 0]
  /\ t1 = [r \in Ranks |-> 0]
  /\ clock = [r \in Ranks |-> r]
  /\ bch = [r \in Ranks |-> << >>]
  /\ rch = [r \in Ranks |-> << >>]
  /\ stdinBad = FALSE
  /\ converted = FALSE
  /\ out = << >>
  /\ round = [r \in Ranks |-> 0]
  /\ visited = [r \in Ranks |-> << >>]
  /\ calcRound = [r \in Ranks |-> 0]
  /\ sent = << 0, 0 >>
  /\ repElapsed = 0
  /\ repPi = Zero
  /\ finalized = [r \in Ranks |-> 0]
  /\ status = [r \in Ranks |-> -1]

\* the runs in which every clock moves on by one tick from reading to reading
Init == Started /\ drift = [r \in Ranks |-> 1] /\ intMax = IntMax

\* the runs in which the clock of a rank may be too coarse to move between
\* two readings
TimedInit ==
  /\ Started
  /\ numprocs <= MaxFairProcs
  /\ drift \in [Ranks -> {0, 1}]
  /\ intMax = IntMax

\* line 19: the root argument of MPI_Bcast
BcastRootRank == 0

\* line 32: the root argument of MPI_Reduce
ReduceRootRank == 0

\* a rank test that lets every rank through
IsCoordinatorAnyRank(id) == id >= 0

\* lines 14 and 35: if (myid == 0)
IsCoordinator(id) == id = 0

\* an entry of the record of console input and output
Event(r, what, k) == [who |-> r, what |-> what, rnd |-> k]

\* ------------------------------------------------------- lines 13 to 18
\* while (!done), if (myid == 0), printf + fflush of the prompt.
\* done is never assigned, so the test always passes.
While(r) ==
  /\ pc[r] = "while"
  /\ round[r] < MaxRounds
  /\ round' = [round EXCEPT ![r] = @ + 1]
  /\ IF IsCoordinator(myid[r])
       THEN /\ out' = Append(out, Event(r, "prompt", round[r] + 1))
            /\ pc' = [pc EXCEPT ![r] = "scanf"]
       ELSE /\ out' = out
            /\ pc' = [pc EXCEPT ![r] = "bcast"]
  /\ UNCHANGED << numprocs, drift, intMax, myid, n, i, h, sum, x, mypi, pi, t0, t1, clock, bch,
                  rch, stdinBad, converted, visited, calcRound, sent, repElapsed, repPi,
                  finalized, status >>

\* scanf("%d", &n) converts a number and stores it
ScanfOk(r, v) ==
  /\ pc[r] = "scanf"
  /\ ~stdinBad
  /\ n' = [n EXCEPT ![r] = v]
  /\ converted' = TRUE
  /\ out' = Append(out, Event(r, "read", round[r]))
  /\ pc' = [pc EXCEPT ![r] = "bcast"]
  /\ UNCHANGED << numprocs, drift, intMax, myid, i, h, sum, x, mypi, pi, t0, t1, clock, bch, rch,
                  stdinBad, round, visited, calcRound, sent, repElapsed, repPi,
                  finalized, status >>

\* a failed read that stores 0, as if the end of input asked to stop
ScanfFailStoresZero(r) ==
  /\ pc[r] = "scanf"
  /\ stdinBad' \in {stdinBad, TRUE}
  /\ converted' = FALSE
  /\ n' = [n EXCEPT ![r] = 0]
  /\ out' = Append(out, Event(r, "read", round[r]))
  /\ pc' = [pc EXCEPT ![r] = "bcast"]
  /\ UNCHANGED << numprocs, drift, intMax, myid, i, h, sum, x, mypi, pi, t0, t1, clock, bch,
                  rch, round, visited, calcRound, sent, repElapsed, repPi,
                  finalized, status >>

\* scanf("%d", &n) converts nothing: nothing is stored and the return value
\* is not looked at. At end of file, or at a character that starts no
\* number (it stays in the stream), every later scanf fails as well; a lone
\* sign is consumed, and a later scanf can convert again.
ScanfFail(r) ==
  /\ pc[r] = "scanf"
  /\ stdinBad' \in {stdinBad, TRUE}
  /\ converted' = FALSE
  /\ out' = Append(out, Event(r, "read", round[r]))
  /\ pc' = [pc EXCEPT ![r] = "bcast"]
  /\ UNCHANGED << numprocs, drift, intMax, myid, n, i, h, sum, x, mypi, pi, t0, t1, clock, bch,
                  rch, round, visited, calcRound, sent, repElapsed, repPi,
                  finalized, status >>

\* -------------------------------------------------------------- line 19
\* a coordinator that tests n == 0 before the broadcast and leaves the loop
\* without telling the other ranks
BcastRootQuitsFirst(r) ==
  /\ pc[r] = "bcast"
  /\ myid[r] = BcastRootRank
  /\ bch' = [q \in Ranks |->
               IF q # r /\ n[r] # 0 THEN Append(bch[q], << round[r], n[r] >>)
                                    ELSE bch[q]]
  /\ sent' = << round[r], n[r] >>
  /\ pc' = [pc EXCEPT ![r] = "test"]
  /\ UNCHANGED << numprocs, drift, intMax, myid, n, i, h, sum, x, mypi, pi, t0, t1, clock, rch,
                  stdinBad, converted, out, round, visited, calcRound, repElapsed, repPi,
                  finalized, status >>

\* MPI_Bcast(&n, 1, MPI_INT, 0, MPI_COMM_WORLD) on the root: the value of n
\* is handed to the library for every other rank and the call returns
BcastRoot(r) ==
  /\ pc[r] = "bcast"
  /\ myid[r] = BcastRootRank
  /\ bch' = [q \in Ranks |->
               IF q # r THEN Append(bch[q], << round[r], n[r] >>) ELSE bch[q]]
  /\ sent' = << round[r], n[r] >>
  /\ pc' = [pc EXCEPT ![r] = "test"]
  /\ UNCHANGED << numprocs, drift, intMax, myid, n, i, h, sum, x, mypi, pi, t0, t1, clock, rch,
                  stdinBad, converted, out, round, visited, calcRound, repElapsed, repPi,
                  finalized, status >>

\* a receive that drops the sign of the value
DeliveredWithoutSign(own, msg) == Abs(msg[2])

\* a receive that leaves the caller's buffer as it was
DeliveredKeepsOwn(own, msg) == own

\* what MPI_Bcast leaves in the buffer &n of a rank other than the root
Delivered(own, msg) == msg[2]

\* a broadcast that returns on a rank other than the root without waiting
\* for the root's data
BcastRecvNoWait(r) ==
  /\ pc[r] = "bcast"
  /\ myid[r] # BcastRootRank
  /\ IF bch[r] # << >>
       THEN /\ n' = [n EXCEPT ![r] = Delivered(@, Head(bch[r]))]
            /\ bch' = [bch EXCEPT ![r] = Tail(@)]
       ELSE UNCHANGED << n, bch >>
  /\ pc' = [pc EXCEPT ![r] = "test"]
  /\ UNCHANGED << numprocs, drift, intMax, myid, i, h, sum, x, mypi, pi, t0, t1, clock, rch,
                  stdinBad, converted, out, round, visited, calcRound, sent, repElapsed,
                  repPi, finalized, status >>

\* MPI_Bcast on any other rank: waits for the root's data, which overwrites n
BcastRecv(r) ==
  /\ pc[r] = "bcast"
  /\ myid[r] # BcastRootRank
  /\ bch[r] # << >>
  /\ n' = [n EXCEPT ![r] = Delivered(@, Head(bch[r]))]
  /\ bch' = [bch EXCEPT ![r] = Tail(@)]
  /\ pc' = [pc EXCEPT ![r] = "test"]
  /\ UNCHANGED << numprocs, drift, intMax, myid, i, h, sum, x, mypi, pi, t0, t1, clock, rch,
                  stdinBad, converted, out, round, visited, calcRound, sent, repElapsed,
                  repPi, finalized, status >>

\* -------------------------------------------------------------- line 20
\* a test that never leaves the loop
QuitsNever(nn) == FALSE

\* a test that also leaves the loop on a negative n
QuitsNonPositive(nn) == nn <= 0

\* if (n == 0) break;
Quits(nn) == nn = 0

Test(r) ==
  /\ pc[r] = "test"
  /\ pc' = [pc EXCEPT ![r] = IF Quits(n[r]) THEN "finalize" ELSE "wtime0"]
  /\ UNCHANGED << numprocs, drift, intMax, myid, n, i, h, sum, x, mypi, pi, t0, t1, clock, bch,
                  rch, stdinBad, converted, out, round, visited, calcRound, sent, repElapsed,
                  repPi, finalized, status >>

\* ------------------------------------------------------- lines 22 and 34
\* MPI_Wtime(): a reading of the caller's own clock, which never runs back.
\* The clocks of different ranks are not synchronised (rank r's clock starts
\* at r); between two readings on rank r it moves on by drift[r] ticks.
\* Readings(r) is the set of values the next call on rank r can return.
Readings(r) == { clock[r] + drift[r] }

\* line 26: for (i = myid + 1; i <= n; i += numprocs)
\* a loop that starts at the rank instead of one above it
FirstIndexFromRank(id) == id

FirstIndex(id) == id + 1

\* a loop test that stops one index early
LoopCondStrict(k, nn) == k < nn

LoopCond(k, nn) == k <= nn

\* a loop that advances by one instead of by the group size
NextIndexByOne(k, np) == k + 1

NextIndex(k, np) == k + np

\* ------------------------------------------------------- lines 22 to 26
\* a pass that goes on adding to the sum of the pass before
StartKeepsSum(r, c) ==
  /\ pc[r] = "wtime0"
  /\ c \in Readings(r)
  /\ clock' = [clock EXCEPT ![r] = c]
  /\ t0' = [t0 EXCEPT ![r] = c]
  /\ h' = [h EXCEPT ![r] = RDiv(One, ToDouble(n[r]))]
  /\ i' = [i EXCEPT ![r] = FirstIndex(myid[r])]
  /\ visited' = [visited EXCEPT ![r] = << >>]
  /\ pc' = [pc EXCEPT ![r] = "for"]
  /\ UNCHANGED << numprocs, drift, intMax, myid, n, sum, x, mypi, pi, t1, bch, rch,
                  stdinBad, converted, out, round, calcRound, sent, repElapsed, repPi,
                  finalized, status >>

\* t0 = MPI_Wtime(); h = 1.0 / (double) n; sum = 0.0; i = myid + 1
Start(r, c) ==
  /\ pc[r] = "wtime0"
  /\ c \in Readings(r)
  /\ clock' = [clock EXCEPT ![r] = c]
  /\ t0' = [t0 EXCEPT ![r] = c]
  /\ h' = [h EXCEPT ![r] = RDiv(One, ToDouble(n[r]))]
  /\ sum' = [sum EXCEPT ![r] = Zero]
  /\ i' = [i EXCEPT ![r] = FirstIndex(myid[r])]
  /\ visited' = [visited EXCEPT ![r] = << >>]
  /\ pc' = [pc EXCEPT ![r] = "for"]
  /\ UNCHANGED << numprocs, drift, intMax, myid, n, x, mypi, pi, t1, bch, rch, stdinBad, converted, out,
                  round, calcRound, sent, repElapsed, repPi, finalized, status >>

\* line 27: x = h * ((double)i - 0.5)
Sample(hh, k) == RMul(hh, RSub(ToDouble(k), Half))

\* line 28: 4.0 / (1.0 + x*x)
Kernel(xx) == RDiv(Four, RAdd(One, RMul(xx, xx)))

\* lines 26 to 29, one pass of the body: i <= n holds
\* line 26, i += numprocs in an int whose largest value is mx: where the
\* rank goes on and with which index. When an int does not hold the sum the
\* addition overflows, which C leaves undefined: a build wraps the index
\* around and the loop goes on at its test with the wrapped index, or keeps
\* the sum in a wider register and the loop goes on at its test with that,
\* or traps ("aborted").
AfterIndex(k, np, mx) ==
  IF NextIndex(k, np) <= mx THEN { << "for", NextIndex(k, np) >> }
  ELSE { << "for", NextIndex(k, np) - 2 * (mx + 1) >>,
         << "for", NextIndex(k, np) >>,
         << "aborted", k >> }

\* lines 26 to 28: i <= n holds, x = h * ((double) i - 0.5),
\* sum += 4.0 / (1.0 + x * x), i += numprocs
ForBody(r) ==
  /\ pc[r] = "for"
  /\ LoopCond(i[r], n[r])
  /\ Len(visited[r]) < MaxVisits
  /\ x' = [x EXCEPT ![r] = Sample(h[r], i[r])]
  /\ sum' = [sum EXCEPT ![r] = RAdd(@, Kernel(Sample(h[r], i[r])))]
  /\ \E o \in AfterIndex(i[r], numprocs, intMax) :
       /\ pc' = [pc EXCEPT ![r] = o[1]]
       /\ i' = [i EXCEPT ![r] = o[2]]
  /\ visited' = [visited EXCEPT ![r] = Append(@, i[r])]
  /\ UNCHANGED << numprocs, drift, intMax, myid, n, h, mypi, pi, t0, t1, clock, bch, rch,
                  stdinBad, converted, out, round, calcRound, sent, repElapsed, repPi,
                  finalized, status >>

\* lines 26 and 30: i <= n fails, mypi = h * sum
ForExit(r) ==
  /\ pc[r] = "for"
  /\ ~LoopCond(i[r], n[r])
  /\ mypi' = [mypi EXCEPT ![r] = RMul(h[r], sum[r])]
  /\ calcRound' = [calcRound EXCEPT ![r] = round[r]]
  /\ pc' = [pc EXCEPT ![r] = "reduce"]
  /\ UNCHANGED << numprocs, drift, intMax, myid, n, i, h, sum, x, pi, t0, t1, clock, bch, rch,
                  stdinBad, converted, out, round, visited, sent, repElapsed, repPi,
                  finalized, status >>

\* -------------------------------------------------------------- line 32
\* MPI_Reduce(&mypi, &pi, 1, MPI_DOUBLE, MPI_SUM, 0, MPI_COMM_WORLD) on a
\* rank other than the root: mypi is handed over and the call returns;
\* the receive buffer pi is not written
\* a contribution that never reaches the root
ReduceSendLost(r) ==
  /\ pc[r] = "reduce"
  /\ myid[r] # ReduceRootRank
  /\ pc' = [pc EXCEPT ![r] = "wtime1"]
  /\ UNCHANGED << numprocs, drift, intMax, myid, n, i, h, sum, x, mypi, pi, t0, t1, clock, bch,
                  rch, stdinBad, converted, out, round, visited, calcRound, sent, repElapsed,
                  repPi, finalized, status >>

ReduceSend(r) ==
  /\ pc[r] = "reduce"
  /\ myid[r] # ReduceRootRank
  /\ rch' = [rch EXCEPT ![r] = Append(@, << round[r], mypi[r] >>)]
  /\ pc' = [pc EXCEPT ![r] = "wtime1"]
  /\ UNCHANGED << numprocs, drift, intMax, myid, n, i, h, sum, x, mypi, pi, t0, t1, clock, bch,
                  stdinBad, converted, out, round, visited, calcRound, sent, repElapsed,
                  repPi, finalized, status >>

\* a reduction that leaves out the root's own value
RECURSIVE SumWithoutOwn(_, _, _)
SumWithoutOwn(own, ch, k) ==
  IF k = 0 THEN Zero ELSE RAdd(SumWithoutOwn(own, ch, k - 1), Head(ch[k])[2])

\* MPI_SUM over the root's own value and the first contribution of each
\* other rank, taken in rank order
RECURSIVE SumUpTo(_, _, _)
SumUpTo(own, ch, k) ==
  IF k = 0 THEN own ELSE RAdd(SumUpTo(own, ch, k - 1), Head(ch[k])[2])

\* a reduction that returns on the root without waiting for the ranks whose
\* contribution has not arrived, and adds up what is there
RECURSIVE SumPresent(_, _, _)
SumPresent(own, ch, k) ==
  IF k = 0 THEN own
  ELSE IF ch[k] = << >> THEN SumPresent(own, ch, k - 1)
  ELSE RAdd(SumPresent(own, ch, k - 1), Head(ch[k])[2])

ReduceRootNoWait(r) ==
  /\ pc[r] = "reduce"
  /\ myid[r] = ReduceRootRank
  /\ pi' = [pi EXCEPT ![r] = SumPresent(mypi[r], rch, numprocs - 1)]
  /\ rch' = [q \in Ranks |-> IF q # r /\ rch[q] # << >> THEN Tail(rch[q]) ELSE rch[q]]
  /\ pc' = [pc EXCEPT ![r] = "wtime1"]
  /\ UNCHANGED << numprocs, drift, intMax, myid, n, i, h, sum, x, mypi, t0, t1, clock, bch,
                  stdinBad, converted, out, round, visited, calcRound, sent, repElapsed,
                  repPi, finalized, status >>

\* MPI_Reduce on the root: waits for one contribution of every other rank
ReduceRoot(r) ==
  /\ pc[r] = "reduce"
  /\ myid[r] = ReduceRootRank
  /\ \A q \in Ranks \ {r} : rch[q] # << >>
  /\ pi' = [pi EXCEPT ![r] = SumUpTo(mypi[r], rch, numprocs - 1)]
  /\ rch' = [q \in Ranks |-> IF q # r THEN Tail(rch[q]) ELSE rch[q]]
  /\ pc' = [pc EXCEPT ![r] = "wtime1"]
  /\ UNCHANGED << numprocs, drift, intMax, myid, n, i, h, sum, x, mypi, t0, t1, clock, bch,
                  stdinBad, converted, out, round, visited, calcRound, sent, repElapsed,
                  repPi, finalized, status >>

\* ------------------------------------------------------- lines 34 to 40
\* a difference taken the wrong way round
ElapsedSwapped(start, end) == start - end

\* line 36: t1-t0
Elapsed(start, end) == end - start

\* t1 = MPI_Wtime(); rank 0 prints t1-t0 and pi; back to the loop test
Report(r, c) ==
  /\ pc[r] = "wtime1"
  /\ c \in Readings(r)
  /\ clock' = [clock EXCEPT ![r] = c]
  /\ t1' = [t1 EXCEPT ![r] = c]
  /\ IF IsCoordinator(myid[r])
       THEN /\ out' = Append(out, Event(r, "report", round[r]))
            /\ repElapsed' = Elapsed(t0[r], c)
            /\ repPi' = pi[r]
       ELSE UNCHANGED << out, repElapsed, repPi >>
  /\ pc' = [pc EXCEPT ![r] = "while"]
  /\ UNCHANGED << numprocs, drift, intMax, myid, n, i, h, sum, x, mypi, pi, t0, bch, rch,
                  stdinBad, converted, round, visited, calcRound, sent, finalized, status >>

\* ------------------------------------------------------- lines 41 to 42
\* MPI_Finalize(); return 0;
Finalize(r) ==
  /\ pc[r] = "finalize"
  /\ finalized' = [finalized EXCEPT ![r] = @ + 1]
  /\ status' = [status EXCEPT ![r] = 0]
  /\ pc' = [pc EXCEPT ![r] = "exited"]
  /\ UNCHANGED << numprocs, drift, intMax, myid, n, i, h, sum, x, mypi, pi, t0, t1, clock, bch,
                  rch, stdinBad, converted, out, round, visited, calcRound, sent, repElapsed,
                  repPi >>

Next ==
  \/ \E r \in Ranks : While(r)
  \/ \E r \in Ranks, v \in InputVals : ScanfOk(r, v)
  \/ \E r \in Ranks : ScanfFail(r)
  \/ \E r \in Ranks : BcastRoot(r)
  \/ \E r \in Ranks : BcastRecv(r)
  \/ \E r \in Ranks : Test(r)
  \/ \E r \in Ranks : \E c \in Readings(r) : Start(r, c)
  \/ \E r \in Ranks : ForBody(r)
  \/ \E r \in Ranks : ForExit(r)
  \/ \E r \in Ranks : ReduceSend(r)
  \/ \E r \in Ranks : ReduceRoot(r)
  \/ \E r \in Ranks : \E c \in Readings(r) : Report(r, c)
  \/ \E r \in Ranks : Finalize(r)

Spec == Init /\ [][Next]_vars

\* every step rank r takes on its own; the read of the console is left out,
\* since it waits for whoever types
RankStep(r) ==
  /\ r \in Ranks
  /\ \/ While(r)
     \/ BcastRoot(r)
     \/ BcastRecv(r)
     \/ Test(r)
     \/ \E c \in Readings(r) : Start(r, c)
     \/ ForBody(r)
     \/ ForExit(r)
     \/ ReduceSend(r)
     \/ ReduceRoot(r)
     \/ \E c \in Readings(r) : Report(r, c)
     \/ Finalize(r)

\* the ranks the launcher can start
AllProcs == 0 .. (MaxProcs - 1)

\* a machine whose int is so narrow that the largest n read is INT_MAX
WordInit ==
  /\ Started
  /\ drift = [r \in Ranks |-> 1]
  /\ intMax = MaxN

\* the runs on the narrow machine
WordSpec == WordInit /\ [][Next]_vars

\* the runs in which some clocks stand still
TimedSpec == TimedInit /\ [][Next]_vars

\* the start of the runs checked for progress
FairInit == Init /\ numprocs <= MaxFairProcs

\* every rank is a process of its own that keeps running when it can
FairSpec ==
  FairInit /\ [][Next]_vars /\ \A r \in AllProcs : WF_vars(RankStep(r))

\* ===================================================================
\* Properties
\* ===================================================================

\* rank r has finished the integration loop of pass k and not begun another
LoopDone(r, k) == calcRound[r] = k /\ pc[r] \notin {"wtime0", "for"}

\* the number of times rank r's loop body ran on index k in this pass
Visits(r, k) == Cardinality({ j \in 1 .. Len(visited[r]) : visited[r][j] = k })

\* C1: once every rank has finished the stride loop of a pass with
\* n >= 1, every index in 1..n was visited by exactly one rank, exactly
\* once, and no rank visited anything outside 1..n.
C1_Partition ==
  \A r0 \in Ranks :
    (pc[r0] = "wtime1" /\ myid[r0] = ReduceRootRank /\ n[r0] >= 1) =>
      /\ \A q \in Ranks : LoopDone(q, round[r0]) /\ n[q] = n[r0]
      /\ \A k \in 1 .. n[r0] :
           /\ Cardinality({ q \in Ranks : Visits(q, k) > 0 }) = 1
           /\ \A q \in Ranks : Visits(q, k) <= 1
      /\ \A q \in Ranks : \A j \in 1 .. Len(visited[q]) :
           visited[q][j] \in 1 .. n[r0]
      /\ \A q \in Ranks : \A j \in 1 .. Len(visited[q]) :
           visited[q][j] = q + 1 + (j - 1) * numprocs

\* C1 witness: two ranks have finished the loop for n = 3; rank 0 ran the
\* body on two indices and rank 1 on one
C1_Witness ==
  /\ numprocs = 2
  /\ pc[0] = "wtime1"
  /\ n[0] = 3
  /\ Len(visited[0]) = 2
  /\ Len(visited[1]) = 1

\* C2: a rank that has completed the broadcast of a pass holds in n the
\* value rank 0 held when it entered the broadcast of that same pass,
\* whatever the rank held in n before.
C2_BroadcastValue ==
  \A r \in Ranks :
    /\ pc[r] \in {"test", "wtime0", "for", "reduce"} => sent = << round[r], n[r] >>
    /\ (pc[r] = "wtime1" /\ sent[1] = round[r]) => n[r] = sent[2]

\* C2 witness: a rank other than rank 0 has completed the first broadcast,
\* nothing is left in flight to it and it holds the value rank 0 sent
C2_Witness ==
  \E r \in Ranks :
    /\ myid[r] # BcastRootRank
    /\ pc[r] = "test"
    /\ round[r] = 1
    /\ bch[r] = << >>
    /\ n[r] = sent[2]

\* rank r has left the while loop
Terminated(r) == pc[r] \in {"finalize", "exited"}

\* C3: a rank has left the loop only if the value broadcast in its pass was
\* 0, and a rank past the test of a pass whose value was not 0 has not left;
\* once 0 has been broadcast in pass k, no rank is beyond pass k and no rank
\* in pass k computes, reduces or reports; no rank is in a later pass than
\* a rank that has left the loop.
C3_UniformTermination ==
  \A r \in Ranks :
    /\ Terminated(r) => (sent = << round[r], 0 >> /\ n[r] = 0)
    /\ pc[r] \in {"wtime0", "for", "reduce", "wtime1"} => n[r] # 0
    /\ (sent[1] >= 1 /\ sent[2] = 0) =>
         /\ round[r] <= sent[1]
         /\ round[r] = sent[1] => pc[r] \in {"bcast", "test", "finalize", "exited"}
    /\ \A q \in Ranks : Terminated(r) => round[q] <= round[r]

\* C3 witness: three ranks ran one full pass and all left the loop in the
\* second pass
C3_Witness ==
  /\ numprocs = 3
  /\ \A r \in Ranks : pc[r] = "exited" /\ round[r] = 2 /\ n[r] = 0

\* the sum of the partial values held by ranks 0..k
RECURSIVE PartialTotal(_)
PartialTotal(k) == IF k < 0 THEN Zero ELSE RAdd(mypi[k], PartialTotal(k - 1))

\* C4: when MPI_Reduce has returned on rank 0, pi there is the sum of the
\* partial values of all ranks, each computed in the pass rank 0 is in; a
\* contribution in flight is the sender's partial value of that pass, and
\* no rank has more than one in flight.
C4_ReduceSum ==
  /\ \A r \in Ranks :
       (pc[r] = "wtime1" /\ myid[r] = ReduceRootRank) =>
         /\ pi[r] = PartialTotal(numprocs - 1)
         /\ \A q \in Ranks : calcRound[q] = round[r]
         /\ \A q \in Ranks : rch[q] = << >>
  /\ \A q \in Ranks :
       /\ Len(rch[q]) <= 1
       /\ rch[q] # << >> =>
            /\ rch[q][1] = << calcRound[q], mypi[q] >>
            /\ calcRound[q] = round[ReduceRootRank]
            /\ pc[ReduceRootRank] \in {"test", "wtime0", "for", "reduce"}

\* C4 witness: in the second pass, with three ranks and n = 3, the reduction
\* has returned on rank 0 and every rank contributed a non-zero value
C4_Witness ==
  /\ numprocs = 3
  /\ pc[0] = "wtime1"
  /\ round[0] = 2
  /\ n[0] = 3
  /\ \A q \in Ranks : mypi[q] # Zero
  /\ pi[0] = RAdd(RAdd(mypi[0], mypi[1]), mypi[2])

\* rank r has returned from the MPI_Bcast of the pass it is in
PastBcast(r) ==
  pc[r] \in {"test", "wtime0", "for", "reduce", "wtime1", "finalize", "exited"}

\* rank q has called MPI_Bcast in pass k (a rank standing at the call counts)
EnteredBcast(q, k) == round[q] > k \/ (round[q] = k /\ pc[q] # "scanf")

\* rank 0 has handed the value of pass k to MPI_Bcast
RootSent(k) ==
  \/ round[BcastRootRank] > k
  \/ round[BcastRootRank] = k /\ pc[BcastRootRank] \notin {"scanf", "bcast"}

\* C5 as stated: no rank is past the broadcast of a pass before every rank
\* has entered the broadcast of that pass.
C5_Original ==
  \A r \in Ranks : PastBcast(r) => \A q \in Ranks : EnteredBcast(q, round[r])

\* C5 amended: no rank other than rank 0 is past the broadcast of a pass
\* before rank 0 has entered that broadcast and its value has reached the
\* rank. (Rank 0 itself may go on before the others have entered.)
C5_BroadcastWaitsForRoot ==
  \A r \in Ranks :
    (myid[r] # BcastRootRank /\ PastBcast(r)) =>
      /\ RootSent(round[r])
      /\ pc[r] \in {"test", "wtime0", "for", "reduce"} =>
           (n[r] = sent[2] /\ bch[r] = << >>)

\* C5 witness: a rank other than rank 0 has returned from the broadcast of
\* the second pass, and another rank has not entered it yet
C5_Witness ==
  \E r, q \in Ranks :
    /\ myid[r] # BcastRootRank
    /\ pc[r] = "test"
    /\ round[r] = 2
    /\ round[q] = 1

\* the number of MPI_Reduce calls rank r has returned from
Done(r) == IF pc[r] \in {"wtime1", "while"} THEN round[r] ELSE round[r] - 1

\* rank q has called MPI_Reduce in pass k (a rank standing at the call counts)
EnteredReduce(q, k) == Done(q) >= k \/ (round[q] = k /\ pc[q] = "reduce")

\* C6 as stated: no rank is past the reduce call of a pass before every
\* rank has supplied its partial value of that pass.
C6_Original ==
  \A r \in Ranks : \A q \in Ranks : EnteredReduce(q, Done(r))

\* C6 amended: rank 0 is not past the reduce call of a pass before every
\* rank has supplied its partial value of that pass; another rank may go on
\* as soon as it has supplied its own, but is not past the next broadcast
\* before rank 0 has returned from the reduce call.
C6_RootWaitsForAll ==
  /\ \A q \in Ranks : Done(q) >= Done(ReduceRootRank)
  /\ \A r \in Ranks : PastBcast(r) => Done(ReduceRootRank) >= round[r] - 1

\* C6 witness: rank 0 has returned from the reduce call of the second pass
\* with three ranks, so both other ranks have supplied their value
C6_Witness ==
  /\ numprocs = 3
  /\ pc[ReduceRootRank] = "wtime1"
  /\ round[ReduceRootRank] = 2
  /\ \A q \in Ranks : Done(q) = 2

\* C7: in every pass a rank integrates only after its broadcast has
\* completed, with the granularity of that pass, and enters the reduction
\* only after its loop has run to the end: while it is before the reduce
\* call nothing of that pass is in flight from it, at the reduce call its
\* loop index is beyond n and mypi is h*sum of that pass, and what it has
\* supplied is the mypi of a finished loop.
C7_RoundOrder ==
  \A r \in Ranks :
    /\ pc[r] \in {"wtime0", "for"} =>
         /\ RootSent(round[r])
         /\ sent = << round[r], n[r] >>
         /\ calcRound[r] < round[r]
         /\ rch[r] = << >>
    /\ pc[r] = "for" => h[r] = RDiv(One, ToDouble(sent[2]))
    /\ pc[r] = "reduce" =>
         /\ calcRound[r] = round[r]
         /\ i[r] > n[r]
         /\ mypi[r] = RMul(h[r], sum[r])
         /\ h[r] = RDiv(One, ToDouble(sent[2]))
         /\ rch[r] = << >>
    /\ \A j \in 1 .. Len(rch[r]) :
         /\ rch[r][j] = << calcRound[r], mypi[r] >>
         /\ i[r] > n[r]
         /\ Done(r) >= calcRound[r]

\* C7 witness: a rank other than rank 0 stands at the reduce call of the
\* second pass after a loop of one iteration
C7_Witness ==
  \E r \in Ranks :
    /\ myid[r] # ReduceRootRank
    /\ pc[r] = "reduce"
    /\ round[r] = 2
    /\ Len(visited[r]) = 1
    /\ mypi[r] # Zero
    /\ sent = << 2, n[r] >>

\* the pass has fewer intervals than there are ranks
FewIntervals(nn) == 1 <= nn /\ nn < numprocs

\* C8: when 1 <= n < numprocs, a rank r >= n that has finished its loop ran
\* the body on no index and its partial value is exactly zero; the
\* reduction still completes with a contribution of every rank, its result
\* is the sum of the values of the ranks below n, and rank 0 prints it; no
\* rank ends with a status other than 0.
C8_EmptyShare ==
  /\ \A r \in Ranks :
       (pc[r] \in {"reduce", "wtime1"} /\ FewIntervals(n[r]) /\ myid[r] >= n[r]) =>
         /\ visited[r] = << >>
         /\ sum[r] = Zero
         /\ mypi[r] = Zero
         /\ calcRound[r] = round[r]
  /\ \A r \in Ranks :
       (myid[r] = ReduceRootRank /\ pc[r] = "wtime1" /\ FewIntervals(n[r])) =>
         /\ \A q \in Ranks : Done(q) >= round[r]
         /\ pi[r] = PartialTotal(n[r] - 1)
  /\ \A r \in Ranks :
       (IsCoordinator(myid[r]) /\ pc[r] = "while" /\ round[r] >= 1
          /\ FewIntervals(n[r])) =>
         /\ out[Len(out)] = Event(r, "report", round[r])
         /\ repPi = PartialTotal(n[r] - 1)
  /\ \A r \in Ranks : status[r] \in {-1, 0}

\* C8 witness: three ranks, n = 1: ranks 1 and 2 contributed exactly zero
\* and rank 0 has printed the result of the pass
C8_Witness ==
  /\ numprocs = 3
  /\ pc[0] = "while"
  /\ round[0] = 1
  /\ n[0] = 1
  /\ out[Len(out)] = Event(0, "report", 1)
  /\ visited[1] = << >> /\ visited[2] = << >>
  /\ mypi[1] = Zero /\ mypi[2] = Zero
  /\ \A q \in Ranks : Done(q) >= 1
  /\ repPi = << 16, 5 >>

\* every prompt, read and report so far was made by rank 0, and only rank 0
\* stands at the scanf call
OnlyRankZeroIO ==
  /\ \A j \in 1 .. Len(out) : out[j].who = 0
  /\ \A r \in Ranks : pc[r] = "scanf" => r = 0

\* a step changes n on a rank other than rank 0 only by delivering the
\* value the broadcast carries to it
OnlyBcastWritesN ==
  \A r \in Ranks \ {0} :
    n'[r] # n[r] =>
      /\ pc[r] = "bcast"
      /\ bch[r] # << >>
      /\ n'[r] = Head(bch[r])[2]
      /\ pc'[r] = "test"

\* C9: prompts, reads and reports are made by rank 0 only, and a rank other
\* than rank 0 gets a new n only from the broadcast.
C9_CoordinatorOnlyIO == []OnlyRankZeroIO /\ [][OnlyBcastWritesN]_vars

\* C9 witness: with more than one rank, a full pass has been prompted, read
\* and reported, and another rank holds the value that was read
C9_Witness ==
  /\ numprocs >= 2
  /\ Len(out) = 3
  /\ out[3].what = "report"
  /\ \E r \in Ranks \ {0} : round[r] = 1 /\ pc[r] = "while" /\ n[r] = sent[2]

\* the j-th console event of a run in which every pass is prompted, read
\* and reported once, in this order
Expected(j) ==
  Event(0, IF j % 3 = 1 THEN "prompt" ELSE IF j % 3 = 2 THEN "read" ELSE "report",
        (j + 2) \div 3)

\* the number of console events when rank 0 is in pass k at statement p
ExpectedLen(p, k) ==
  IF p = "while" THEN 3 * k ELSE IF p = "scanf" THEN 3 * k - 2 ELSE 3 * k - 1

\* C10: the console record is prompt, read, report for every pass whose
\* granularity was not 0, in this order; the report of a pass is there
\* exactly when rank 0 is past it, is printed after the reduction of the
\* pass (every rank has supplied its value, and what is printed is the
\* result of the reduction and t1-t0) and before the next prompt; the pass
\* that broadcast 0 has a prompt and a read and no report.
C10_OneReportPerRound ==
  /\ \A j \in 1 .. Len(out) : out[j] = Expected(j)
  /\ Len(out) = ExpectedLen(pc[0], round[0])
  /\ pc[0] \in {"wtime0", "for", "reduce", "wtime1"} => n[0] # 0
  /\ (pc[0] = "while" /\ round[0] >= 1) =>
       /\ n[0] # 0
       /\ \A q \in Ranks : Done(q) >= round[0]
       /\ repPi = pi[0]
       /\ repPi = PartialTotal(numprocs - 1)
       /\ repElapsed = t1[0] - t0[0]
  /\ Terminated(0) =>
       /\ n[0] = 0
       /\ out[Len(out)] = Event(0, "read", round[0])

\* C10 witness: rank 0 has left the loop in the second pass, after one
\* reported pass
C10_Witness ==
  /\ numprocs = 2
  /\ pc[0] = "exited"
  /\ Len(out) = 5
  /\ out[3] = Event(0, "report", 1)
  /\ out[5] = Event(0, "read", 2)

\* rank 0 has broadcast the value 0
ZeroSent == sent[1] >= 1 /\ sent[2] = 0

\* every rank has called MPI_Finalize once and returned 0
AllExited ==
  \A r \in Ranks : pc[r] = "exited" /\ finalized[r] = 1 /\ status[r] = 0

\* no rank calls MPI_Finalize more than once, and it has called it exactly
\* when it has returned from main, with status 0
FinalizeOnce ==
  \A r \in Ranks :
    /\ finalized[r] = (IF pc[r] = "exited" THEN 1 ELSE 0)
    /\ status[r] = (IF pc[r] = "exited" THEN 0 ELSE -1)

\* C11: once rank 0 has broadcast 0, every rank eventually leaves the loop,
\* calls MPI_Finalize exactly once and returns 0 (every rank keeps running).
C11_AllExit == []FinalizeOnce /\ (ZeroSent ~> AllExited)

\* C11 witness: two ranks have both finalized once and returned 0 after a 0
\* was broadcast in the second pass
C11_Witness ==
  /\ numprocs = 2
  /\ sent = << 2, 0 >>
  /\ AllExited

\* C12: the elapsed time rank 0 prints is never negative. Its start reading
\* is the reading of rank 0's own clock taken in the same pass after the
\* broadcast (the (2k-1)-th reading in pass k), its end reading is the next
\* reading of the same clock, taken after the reduction has returned (the
\* 2k-th), and what is printed is the end reading minus the start reading.
C12_ElapsedNonNegative ==
  /\ repElapsed >= 0
  /\ \A r \in Ranks : t0[r] <= clock[r] /\ t1[r] <= clock[r]
  /\ pc[0] \in {"for", "reduce", "wtime1"} =>
       /\ t0[0] = clock[0]
       /\ t0[0] = drift[0] * (2 * round[0] - 1)
       /\ RootSent(round[0])
  /\ (pc[0] = "while" /\ round[0] >= 1) =>
       /\ t0[0] = drift[0] * (2 * round[0] - 1)
       /\ t1[0] = drift[0] * (2 * round[0])
       /\ t1[0] = clock[0]
       /\ repElapsed = t1[0] - t0[0]
       /\ \A q \in Ranks : Done(q) >= round[0]

\* C12 witness: rank 0, whose clock ticks, has printed an elapsed time of one
\* tick in the second pass, next to a rank whose clock stands still
C12_Witness ==
  /\ numprocs = 2
  /\ drift[0] = 1 /\ drift[1] = 0
  /\ pc[0] = "while"
  /\ round[0] = 2
  /\ t0[0] = 3 /\ t1[0] = 4
  /\ repElapsed = 1

\* C14: a negative n is handled like any other non-zero n. While the last
\* value broadcast is negative no rank has left the loop or holds an exit
\* status; a rank past the broadcast of that pass holds the same negative
\* value; a rank that has finished the loop of that pass ran the body on no
\* index and its partial value is zero; the reduction returns on rank 0
\* with the sum of these, every rank having supplied its value; rank 0
\* prints it and goes on to prompt for the next pass.
C14_NegativeGranularity ==
  /\ sent[2] < 0 =>
       \A r \in Ranks :
         /\ ~Terminated(r)
         /\ status[r] = -1
         /\ (round[r] = sent[1] /\ pc[r] \in {"test", "wtime0", "for", "reduce", "wtime1"})
              => n[r] = sent[2]
         /\ (round[r] = sent[1] /\ pc[r] = "for") => ~LoopCond(i[r], n[r])
         /\ (calcRound[r] = sent[1]) =>
              (visited[r] = << >> /\ sum[r] = Zero /\ mypi[r] = Zero)
  /\ (pc[0] = "wtime1" /\ n[0] < 0) =>
       /\ \A q \in Ranks : Done(q) >= round[0]
       /\ pi[0] = Zero
  /\ (pc[0] = "while" /\ round[0] >= 1 /\ n[0] < 0) =>
       /\ out[Len(out)] = Event(0, "report", round[0])
       /\ repPi = Zero
  /\ (pc[0] = "scanf" /\ round[0] >= 2 /\ n[0] < 0) =>
       /\ sent = << round[0] - 1, n[0] >>
       /\ out[Len(out) - 1] = Event(0, "report", round[0] - 1)
       /\ out[Len(out)] = Event(0, "prompt", round[0])

\* C14 witness: three ranks ran the first pass with n = -1, rank 0 printed
\* its result and has prompted for the second pass
C14_Witness ==
  /\ numprocs = 3
  /\ pc[0] = "scanf"
  /\ round[0] = 2
  /\ n[0] = -1
  /\ sent = << 1, -1 >>
  /\ out[3] = Event(0, "report", 1)
  /\ \A q \in Ranks : calcRound[q] = 1 /\ visited[q] = << >> /\ mypi[q] = Zero

\* lines 24 to 30 as a function of n, the rank and the group size: the sum
\* acc of the samples before index k, carried on from index k in steps of np
RECURSIVE SumFrom(_, _, _, _, _)
SumFrom(acc, k, nn, np, hh) ==
  IF k <= nn THEN SumFrom(RAdd(acc, Kernel(Sample(hh, k))), k + np, nn, np, hh)
  ELSE acc

\* the partial value of rank id for nn intervals and np ranks
PartialOf(nn, id, np) ==
  RMul(RDiv(One, ToDouble(nn)),
       SumFrom(Zero, id + 1, nn, np, RDiv(One, ToDouble(nn))))

\* the sum of the partial values of the ranks 0..k
RECURSIVE TotalOf(_, _, _)
TotalOf(nn, k, np) ==
  IF k < 0 THEN Zero ELSE RAdd(TotalOf(nn, k - 1, np), PartialOf(nn, k, np))

\* what a pass leaves behind depends on its own n, the rank and the group
\* size only
NoCarryOver ==
  /\ \A r \in Ranks :
       (calcRound[r] >= 1 /\ calcRound[r] = round[r]) =>
         /\ mypi[r] = PartialOf(n[r], myid[r], numprocs)
         /\ sum[r] = SumFrom(Zero, myid[r] + 1, n[r], numprocs, h[r])
  /\ \A r \in Ranks : pc[r] = "for" /\ i[r] = myid[r] + 1 => sum[r] = Zero
  /\ (pc[0] = "while" /\ round[0] >= 1) =>
       repPi = TotalOf(n[0], numprocs - 1, numprocs)
  /\ myid = [r \in Ranks |-> r]

\* no step changes the rank of a process or the group size
RankAndSizeFixed == numprocs' = numprocs /\ myid' = myid

\* C15: the partial value of a rank and the result rank 0 prints in a pass
\* are the values a fresh computation from that pass's n, the rank and the
\* group size gives, whatever passes ran before; rank and group size never
\* change.
C15_NoCarryOver == []NoCarryOver /\ [][RankAndSizeFixed]_vars

\* C15 witness: in the second pass two ranks computed from n = 3 and rank 0
\* printed the result
C15_Witness ==
  /\ numprocs = 2
  /\ round[0] = 2 /\ pc[0] = "while"
  /\ n[0] = 3
  /\ calcRound[1] = 2
  /\ mypi[1] = PartialOf(3, 1, 2)
  /\ repPi = TotalOf(3, 1, 2)

\* the number of collective calls rank r has returned from: the broadcast of
\* pass k is call 2k-1 and the reduction of pass k is call 2k
Calls(r) ==
  IF pc[r] \in {"scanf", "bcast"} THEN 2 * (round[r] - 1)
  ELSE IF pc[r] \in {"wtime1", "while"} THEN 2 * round[r]
  ELSE 2 * round[r] - 1

\* the pass of the next broadcast rank r will call
NextBcast(r) == ((Calls(r) + 1) \div 2) + 1

\* the pass of the next reduction rank r will call
NextReduce(r) == (Calls(r) \div 2) + 1

\* every message in flight belongs to the call its receiver makes next
InFlightMatch ==
  /\ \A r \in Ranks :
       /\ Len(bch[r]) <= 1
       /\ \A j \in 1 .. Len(bch[r]) : bch[r][j][1] = NextBcast(r) + j - 1
  /\ \A q \in Ranks :
       /\ Len(rch[q]) <= 1
       /\ \A j \in 1 .. Len(rch[q]) : rch[q][j][1] = NextReduce(0) + j - 1

\* a rank that left the loop after the broadcast of pass k has no peer that
\* goes on to the reduction of pass k
SameOperation ==
  \A p \in Ranks : \A q \in Ranks :
    Terminated(p) =>
      /\ Calls(q) <= Calls(p)
      /\ round[q] = round[p] => pc[q] \notin {"wtime0", "for", "reduce", "wtime1"}

\* C16: every message in flight is consumed by the receiver's call of the
\* same operation and pass as the call that sent it, no rank goes to the
\* reduction of a pass whose broadcast made another rank leave, rank 0 is
\* never more than one call away from any rank, and the numbers of passes
\* two ranks have completed differ by at most one.
C16_NoMismatch ==
  /\ InFlightMatch
  /\ SameOperation
  /\ \A q \in Ranks : Calls(q) - Calls(0) \in {-1, 0, 1}
  /\ \A p \in Ranks : \A q \in Ranks : Done(p) - Done(q) <= 1

\* C16 witness: rank 1 has completed pass 1 and waits at the broadcast of
\* pass 2 while rank 2 is still in the loop of pass 1 and rank 0 waits in the
\* reduction of pass 1 with rank 1's contribution in flight
C16_Witness ==
  /\ numprocs = 3
  /\ pc[0] = "reduce" /\ round[0] = 1
  /\ pc[1] = "bcast" /\ round[1] = 2
  /\ pc[2] = "for" /\ round[2] = 1
  /\ Len(rch[1]) = 1 /\ rch[1][1][1] = 1

\* rank 0 has handed a non-zero n to the broadcast of pass k
NonZeroSent(k) == sent[1] = k /\ sent[2] # 0

\* rank 0 has printed the result of pass k
Reported(k) == \E j \in 1 .. Len(out) : out[j] = Event(0, "report", k)

\* pass k is over: rank 0 has printed its result and every rank is back at
\* the loop test after it, rank 0 at the prompt of the next pass or beyond and
\* every other rank at the next broadcast or beyond (the model stops at the
\* loop test after the last pass it explores)
RoundOver(k) ==
  /\ Reported(k)
  /\ \A r \in Ranks :
       IF k < MaxRounds THEN round[r] > k
       ELSE round[r] = k /\ pc[r] = "while"

\* rank 0 waits for input in pass k and every other rank waits at the
\* broadcast of pass k
Quiescent(k) ==
  /\ pc[0] = "scanf" /\ round[0] = k
  /\ \A q \in Ranks \ {0} : pc[q] = "bcast" /\ round[q] = k /\ bch[q] = << >>

\* rank 0 has read the input of pass k
InputTaken(k) == round[0] > k \/ (round[0] = k /\ pc[0] \notin {"while", "scanf"})

\* rank r can take a step without input (the loop test is always possible in
\* the program)
CanStep(r) == pc[r] = "while" \/ ENABLED RankStep(r)

\* no rank can step only when all have left or all wait for rank 0's input
StuckOnlyWhenIdle ==
  (\A r \in Ranks : ~CanStep(r)) =>
     \/ AllExited
     \/ \E k \in 1 .. MaxRounds : Quiescent(k)

\* pass k has settled: it is over and, unless it is the last pass the model
\* explores, the ranks wait together for the input of pass k+1 or rank 0 has
\* read it. Once true it stays true, and it holds for every pass before k.
Settled(k) ==
  /\ RoundOver(k)
  /\ k < MaxRounds => (Quiescent(k + 1) \/ InputTaken(k + 1))

\* the last pass in which rank 0 broadcast a non-zero n (0 when there is
\* none): a zero is only ever broadcast after a pass with a non-zero n or in
\* the first pass
LastNonZero == IF sent[2] # 0 THEN sent[1] ELSE sent[1] - 1

\* some pass with a non-zero n has not settled
Unsettled == LastNonZero >= 1 /\ ~Settled(LastNonZero)

\* C17: with every rank scheduled fairly, a pass in which rank 0 broadcast a
\* non-zero n leads to rank 0's report and to every rank back in the loop,
\* rank 0 at the prompt and the others at the next broadcast, all of them
\* waiting there together unless the next input was read first; and no rank
\* can step only when all ranks have terminated or when every rank other than
\* rank 0 waits at the broadcast for rank 0's input.
C17_DeadlockFree ==
  /\ []StuckOnlyWhenIdle
  /\ Unsettled ~> ~Unsettled

\* C17 witness: after the report of pass 1 rank 0 waits for input and rank 1
\* waits at the broadcast of pass 2
C17_Witness ==
  /\ numprocs = 2
  /\ Reported(1)
  /\ Quiescent(2)
  /\ \A r \in Ranks : ~CanStep(r)

\* rank 0 is in pass k or at the loop test after it, and its read of pass k
\* converted nothing
NoRead(k) == round[0] = k /\ pc[0] # "scanf" /\ ~converted

\* a step changes rank 0's n only by a read that converted a number, and a
\* read that converted nothing in a pass after the first leaves in n the
\* non-zero value broadcast in the pass before
OnlyReadWritesN ==
  /\ n'[0] # n[0] =>
        /\ pc[0] = "scanf" /\ ~stdinBad /\ ~stdinBad'
        /\ converted'
  /\ (pc[0] = "scanf" /\ pc'[0] = "bcast" /\ ~converted') =>
        /\ n'[0] = n[0]
        /\ round[0] >= 2 => (n[0] # 0 /\ sent = << round[0] - 1, n[0] >>)

\* while rank 0 is in a pass after the first whose read converted nothing,
\* and for good once its input is stuck, n is not zero, the broadcast
\* carries it and no rank has left the loop
StaleKeepsRunning ==
  (round[0] >= 2 /\ (NoRead(round[0]) \/ stdinBad)) =>
     /\ n[0] # 0
     /\ sent[1] = round[0] => sent[2] = n[0]
     /\ \A q \in Ranks : \A j \in 1 .. Len(bch[q]) : bch[q][j][2] = n[0]
     /\ \A r \in Ranks : ~Terminated(r)

\* once the input is stuck it stays stuck
StuckForGood == stdinBad => stdinBad'

\* rank 0 has broadcast in a pass after the first whose read converted
\* nothing and has not printed that pass's result
StalePending == sent[1] >= 2 /\ NoRead(sent[1]) /\ ~Reported(sent[1])

\* C18: only a read that converts a number writes rank 0's n; after a read
\* that converts nothing in a pass after the first, n is still the non-zero
\* value of the pass before, that value is broadcast, the pass runs to rank
\* 0's report and no rank terminates in it; once the input has ended for
\* good no rank ever terminates.
C18_StaleGranularity ==
  /\ []StaleKeepsRunning
  /\ [][OnlyReadWritesN /\ StuckForGood]_vars
  /\ StalePending ~> ~StalePending

\* C18 witness: the read of pass 2 converted nothing after pass 1 ran with
\* n = 2, and pass 2 ran with 2 on both ranks up to rank 0's report
C18_Witness ==
  /\ numprocs = 2
  /\ NoRead(2)
  /\ ~stdinBad
  /\ n[0] = 2 /\ n[1] = 2
  /\ sent = << 2, 2 >>
  /\ calcRound[1] = 2
  /\ Reported(2)

\* C19: for a positive n the loop index of every rank stays an int, no
\* addition overflows, and the loop body runs only on indices in 1..n.
C19_IndexInRange ==
  \A r \in Ranks :
    /\ pc[r] # "aborted"
    /\ i[r] <= intMax
    /\ (pc[r] \in {"for", "reduce"} /\ n[r] >= 1) =>
         /\ pc[r] = "for" => i[r] >= 1
         /\ \A j \in 1 .. Len(visited[r]) : visited[r][j] \in 1 .. n[r]

====
